---------------------------- MODULE Spec2Model ----------------------------
(***************************************************************************)
(* RPiMusic daemon (src/src/RPiMusic/rpimusicd.py): the worker's run loop, *)
(* the AMQP message handler, the mpv player supervision and the URL cache  *)
(* file, as one state machine.  The worker is a single thread; pc is its   *)
(* position in rpimusicd() / RPiMusic.  The environment (broker, player    *)
(* processes, file system, signals) chooses the outcomes of the calls the  *)
(* worker makes.                                                           *)
(***************************************************************************)
EXTENDS Integers, Sequences, FiniteSets, TLC

VARIABLES
    pc,                    \* position of the main thread
    exit_flag,             \* RPiMusic.exit_flag
    exitcode,              \* rpimusicd's local exitcode
    amqp_channel,          \* RPiMusic._amqp_channel: "none" | "open" | "closed"
    handlers,              \* TRUE once signal.signal(SIGTERM/SIGINT, worker.stop) ran
    url_cache_file,        \* the cache file: [exists, text]
    current_playlist_url,  \* RPiMusic._current_playlist_url (a JSON value)
    procs,                 \* every player process spawned so far: [url, alive, retcode]
    process,               \* RPiMusic._process: index into procs, 0 when unset
    body,                  \* body of the message being handled
    playlisturl,           \* _handle_msg's local playlisturl
    exc,                   \* the exception last raised into rpimusicd's try block
    hstate,                \* handler invocation: "none" | "running" | "returned" | "raised"
    trace,                 \* what the current handler invocation has done so far
    snap,                  \* the delivery: kind of message (and of the one returned
                           \* before it), cache, URL and players at that moment
    nMsgs,                 \* messages delivered so far
    nConnErr,              \* connection errors so far
    nRetry,                \* connection errors in a row, with no message between
    nSignals,              \* stop signals delivered so far
    nRestarts,             \* times the worker process was started again
    saved                  \* the save the cache file holds complete, if any

vars == <<pc, exit_flag, exitcode, amqp_channel, handlers, url_cache_file,
          current_playlist_url, procs, process, body, playlisturl, exc,
          hstate, trace, snap, nMsgs, nConnErr, nRetry, nSignals, nRestarts,
          saved>>

(***************************************************************************)
(* Bounds of the model.                                                    *)
(***************************************************************************)
MaxMsgs == 2
MaxConnErr == 2
MaxSignals == 1
MaxRestarts == 1
MaxCalls == 4

(***************************************************************************)
(* JSON values and JSON text.  A value is [t, v, kv]: t its type, v the    *)
(* scalar's content, kv the members of an object as <<key, value>> pairs.  *)
(* A text is a sequence of tokens; Dumps writes it and Loads parses it.    *)
(***************************************************************************)
JStr(s) == [t |-> "str", v |-> s, kv |-> <<>>]
JNum == [t |-> "num", v |-> "5", kv |-> <<>>]
JNull == [t |-> "null", v |-> "null", kv |-> <<>>]
JBool == [t |-> "bool", v |-> "true", kv |-> <<>>]
JList == [t |-> "list", v |-> "", kv |-> <<>>]
JObj(members) == [t |-> "obj", v |-> "", kv |-> members]

Tok(k, v) == [k |-> k, v |-> v]
LBrace == Tok("{", "")
RBrace == Tok("}", "")
LBrack == Tok("[", "")
RBrack == Tok("]", "")
Colon == Tok(":", "")
Junk == Tok("junk", "")

ScalarTypes == {"str", "num", "null", "bool"}

\* json.dumps of a value that is a scalar, an empty list, or an object of at
\* most one member whose value is a scalar, an empty list or an empty object
EncodeFlat(val) ==
    CASE val.t \in ScalarTypes -> <<Tok(val.t, val.v)>>
      [] val.t = "list" -> <<LBrack, RBrack>>
      [] OTHER -> <<LBrace, RBrace>>

Dumps(val) ==
    IF val.t = "obj" /\ Len(val.kv) = 1
    THEN <<LBrace, Tok("str", val.kv[1][1]), Colon>>
            \o EncodeFlat(val.kv[1][2]) \o <<RBrace>>
    ELSE EncodeFlat(val)

DecodeFlat(text) ==
    IF Len(text) = 1 /\ text[1].k \in ScalarTypes
    THEN [ok |-> TRUE, val |-> [t |-> text[1].k, v |-> text[1].v, kv |-> <<>>]]
    ELSE IF text = <<LBrack, RBrack>> THEN [ok |-> TRUE, val |-> JList]
    ELSE IF text = <<LBrace, RBrace>> THEN [ok |-> TRUE, val |-> JObj(<<>>)]
    ELSE [ok |-> FALSE, val |-> JNull]

\* json.loads: ok = FALSE stands for json.JSONDecodeError (a ValueError)
Loads(text) ==
    IF DecodeFlat(text).ok THEN DecodeFlat(text)
    ELSE IF /\ Len(text) >= 5
            /\ text[1] = LBrace
            /\ text[2].k = "str"
            /\ text[3] = Colon
            /\ text[Len(text)] = RBrace
            /\ DecodeFlat(SubSeq(text, 4, Len(text) - 1)).ok
         THEN [ok |-> TRUE,
               val |-> JObj(<<
                   <<text[2].v, DecodeFlat(SubSeq(text, 4, Len(text) - 1)).val>> >>)]
         ELSE [ok |-> FALSE, val |-> JNull]

\* jsondata[key]: KeyError when an object lacks the key, TypeError when
\* jsondata is a list, a string, a number, a boolean or None
Subscript(jsondata, key) ==
    IF jsondata.t # "obj" THEN [exc |-> "TypeError", val |-> JNull]
    ELSE IF \E i \in 1..Len(jsondata.kv) : jsondata.kv[i][1] = key
         THEN [exc |-> "none",
               val |-> jsondata.kv[CHOOSE i \in 1..Len(jsondata.kv) :
                                       jsondata.kv[i][1] = key][2]]
         ELSE [exc |-> "KeyError", val |-> JNull]

(***************************************************************************)
(* The data the environment can supply.                                    *)
(***************************************************************************)
Urls == {"u1", "u2"}
fallback_playlist_url == JStr("fallback")

Record(val) == JObj(<< <<"playlisturl", val>> >>)

WrongTyped == {JNum, JNull, JBool, JList, JObj(<<>>)}

\* message bodies: [utf8, text]; utf8 = FALSE is a body that is not UTF-8
Body(text) == [utf8 |-> TRUE, text |-> text]
NotUtf8 == [utf8 |-> FALSE, text |-> <<Junk>>]
ValidBodies == {Body(Dumps(Record(JStr(u)))) : u \in Urls}
WrongTypedBodies == {Body(Dumps(Record(w))) : w \in WrongTyped}
MalformedBodies ==
    {NotUtf8, Body(<<Junk>>), Body(Dumps(JList)), Body(Dumps(JNum)),
     Body(Dumps(JObj(<< <<"other", JStr("u1")>> >>)))}
Bodies == ValidBodies \cup WrongTypedBodies \cup MalformedBodies
NoBody == Body(<<>>)

\* the cache file as the worker can find it when it is constructed
File(text) == [exists |-> TRUE, text |-> text]
Missing == [exists |-> FALSE, text |-> <<>>]
CacheFiles ==
    {Missing, File(<<>>), File(<<Junk>>), File(Dumps(JList)),
     File(Dumps(JObj(<<>>))), File(Dumps(Record(JStr("u1"))))}

RetCodes == {0, 1}
\* an exception: its type, the exit code a CalledProcessError carries, and the
\* step that raised it (its traceback)
NoExc == [type |-> "none", retcode |-> 0, at |-> "none"]
Exc(type) == [type |-> type, retcode |-> 0, at |-> pc]
Kind(b) ==
    IF b \in ValidBodies THEN "valid"
    ELSE IF b \in WrongTypedBodies THEN "wrongtyped" ELSE "malformed"
NoSnap ==
    [kind |-> "none", prev |-> "none", cache |-> Missing, url |-> JNull,
     procs |-> <<>>, process |-> 0]


\* no _set_playlisturl of the worker has completed on the cache file as it is
NoSave == [done |-> FALSE, url |-> JNull]

(***************************************************************************)
(* Helpers shared by the steps.                                            *)
(***************************************************************************)
Alive == {i \in 1..Len(procs) : procs[i].alive}

\* Raise with the except clauses merged: a ConnectionClosed is fatal too
RaiseAllFatal(e) ==
    /\ exc' = e
    /\ pc' = "fatal"
    /\ hstate' = IF hstate = "running" THEN "raised" ELSE hstate
    /\ body' = NoBody
    /\ playlisturl' = JNull

\* an exception leaves worker.start() / setup_amqp_connection() and reaches
\* the except clauses of rpimusicd's loop; a handler it passes through ends,
\* and its locals with it
Raise(e) ==
    /\ exc' = e
    /\ pc' = IF e.type = "ConnectionClosed" THEN "sleep" ELSE "fatal"
    /\ hstate' = IF hstate = "running" THEN "raised" ELSE hstate
    /\ body' = NoBody
    /\ playlisturl' = JNull

\* _start_player or _handle_msg returns: into start_consuming, either called
\* next by worker.start() or the caller of the handler
Return ==
    /\ pc' = "consume"
    /\ hstate' = IF hstate = "running" THEN "returned" ELSE hstate
    /\ body' = NoBody
    /\ playlisturl' = JNull

\* LoadUrl reading a key that _set_playlisturl does not write
LoadUrlOtherKey(file) ==
    IF ~file.exists THEN [exc |-> "FileNotFoundError", val |-> JNull]
    ELSE IF ~Loads(file.text).ok THEN [exc |-> "JSONDecodeError", val |-> JNull]
    ELSE Subscript(Loads(file.text).val, "url")

\* the cache read of RPiMusic.__init__: the exception raised, or the value
LoadUrl(file) ==
    IF ~file.exists THEN [exc |-> "FileNotFoundError", val |-> JNull]
    ELSE IF ~Loads(file.text).ok THEN [exc |-> "JSONDecodeError", val |-> JNull]
    ELSE Subscript(Loads(file.text).val, "playlisturl")

\* the try block of _handle_msg: decode, json.loads, jsondata['playlisturl']
ParseBody(b) ==
    IF ~b.utf8 THEN [exc |-> "UnicodeDecodeError", val |-> JNull]
    ELSE IF ~Loads(b.text).ok THEN [exc |-> "JSONDecodeError", val |-> JNull]
    ELSE Subscript(Loads(b.text).val, "playlisturl")

\* HandlerCaught without TypeError
HandlerCaughtNarrow ==
    {"KeyError", "UnicodeDecodeError", "JSONDecodeError", "AttributeError"}

\* the exceptions _handle_msg catches (UnicodeDecodeError and
\* JSONDecodeError are ValueErrors)
HandlerCaught ==
    {"KeyError", "UnicodeDecodeError", "JSONDecodeError", "AttributeError", "TypeError"}

\* the exceptions RPiMusic.__init__ catches around the cache read
InitCaught == {"FileNotFoundError", "KeyError"}

\* RPiMusic.stop: set the flag, close the channel, swallow close errors
StopEffect ==
    /\ exit_flag' = TRUE
    /\ amqp_channel' = IF amqp_channel = "open" THEN "closed" ELSE amqp_channel

Prefixes(text) == {SubSeq(text, 1, n) : n \in 0..(Len(text) - 1)}

(***************************************************************************)
(* Initial state: the process has started, nothing is constructed yet.     *)
(***************************************************************************)
Init ==
    /\ pc = "init"
    /\ exit_flag = FALSE
    /\ exitcode = 255
    /\ amqp_channel = "none"
    /\ handlers = FALSE
    /\ url_cache_file \in CacheFiles
    /\ current_playlist_url = JNull
    /\ procs = <<>>
    /\ process = 0
    /\ body = NoBody
    /\ playlisturl = JNull
    /\ exc = NoExc
    /\ hstate = "none"
    /\ trace = <<>>
    /\ snap = NoSnap
    /\ nMsgs = 0
    /\ nConnErr = 0
    /\ nRetry = 0
    /\ nSignals = 0
    /\ nRestarts = 0
    /\ saved = NoSave

(***************************************************************************)
(* rpimusicd: construction and the run loop.                               *)
(***************************************************************************)
\* worker = RPiMusic(config); exitcode = 3.  An exception __init__ does not
\* catch leaves rpimusicd through its finally clause with exitcode 255.
Construct ==
    /\ pc = "init"
    /\ LET r == LoadUrl(url_cache_file) IN
         \/ /\ r.exc = "none"
            /\ current_playlist_url' = r.val
            /\ exitcode' = 3
            /\ pc' = "loop"
            /\ exc' = exc
         \/ /\ r.exc \in InitCaught
            /\ current_playlist_url' = fallback_playlist_url
            /\ exitcode' = 3
            /\ pc' = "loop"
            /\ exc' = exc
         \/ /\ r.exc \notin InitCaught \cup {"none"}
            /\ exc' = Exc(r.exc)
            /\ pc' = "exited"
            /\ UNCHANGED <<current_playlist_url, exitcode>>
    /\ UNCHANGED <<exit_flag, amqp_channel, handlers, url_cache_file, procs,
                   process, body, playlisturl, hstate, trace, snap, nMsgs,
                   nConnErr, nRetry, nSignals,
                   nRestarts, saved>>

\* while not worker.exit_flag (the record of the last handler invocation
\* ends with the loop iteration it ran in)
LoopTest ==
    /\ pc = "loop"
    /\ pc' = IF exit_flag THEN "exited" ELSE "connect"
    /\ hstate' = "none"
    /\ trace' = <<>>
    /\ snap' = NoSnap
    /\ UNCHANGED <<exit_flag, exitcode, amqp_channel, handlers, url_cache_file,
                   current_playlist_url, procs, process, body, playlisturl, exc,
                   nMsgs, nConnErr, nRetry, nSignals,
                   nRestarts, saved>>

\* worker.setup_amqp_connection(): the channel is assigned on success only
SetupAmqpConnection ==
    /\ pc = "connect"
    /\ \/ /\ amqp_channel' = "open"
          /\ pc' = "signal"
          /\ UNCHANGED <<exc, hstate, body, playlisturl, nConnErr, nRetry>>
       \/ /\ nConnErr < MaxConnErr
          /\ nConnErr' = nConnErr + 1
          /\ nRetry' = nRetry + 1
          /\ Raise(Exc("ConnectionClosed"))
          /\ UNCHANGED amqp_channel
       \/ /\ Raise(Exc("AMQPConnectionError"))
          /\ UNCHANGED <<amqp_channel, nConnErr, nRetry>>
    /\ UNCHANGED <<exit_flag, exitcode, handlers, url_cache_file,
                   current_playlist_url, procs, process, trace, snap, nMsgs,
                   nSignals,
                   nRestarts, saved>>

\* signal.signal(SIGTERM, worker.stop); signal.signal(SIGINT, worker.stop)
RegisterSignals ==
    /\ pc = "signal"
    /\ handlers' = TRUE
    /\ pc' = "setup_queue"
    /\ UNCHANGED <<exit_flag, exitcode, amqp_channel, url_cache_file,
                   current_playlist_url, procs, process, body, playlisturl, exc,
                   hstate, trace, snap, nMsgs, nConnErr, nRetry, nSignals,
                   nRestarts, saved>>

\* worker.start(): self._setup_amqp_queue()
SetupAmqpQueue ==
    /\ pc = "setup_queue"
    /\ \/ /\ amqp_channel = "open"
          /\ pc' = "sp_popen"
          /\ UNCHANGED <<amqp_channel, exc, hstate, body, playlisturl,
                         nConnErr, nRetry>>
       \/ /\ amqp_channel = "open"
          /\ nConnErr < MaxConnErr
          /\ nConnErr' = nConnErr + 1
          /\ nRetry' = nRetry + 1
          /\ amqp_channel' = "closed"
          /\ Raise(Exc("ConnectionClosed"))
       \/ /\ amqp_channel # "open"
          /\ Raise(Exc("ChannelClosed"))
          /\ UNCHANGED <<amqp_channel, nConnErr, nRetry>>
    /\ UNCHANGED <<exit_flag, exitcode, handlers, url_cache_file,
                   current_playlist_url, procs, process, trace, snap, nMsgs,
                   nSignals,
                   nRestarts, saved>>

\* except pika.exceptions.ConnectionClosed as err: sleep(5); err is unbound
\* when the clause ends
Backoff ==
    /\ pc = "sleep"
    /\ pc' = "loop"
    /\ exc' = NoExc
    /\ UNCHANGED <<exit_flag, exitcode, amqp_channel, handlers, url_cache_file,
                   current_playlist_url, procs, process, body, playlisturl,
                   hstate, trace, snap, nMsgs, nConnErr, nRetry, nSignals,
                   nRestarts, saved>>

\* except Exception: exitcode = 1; worker.stop(); break
Fatal ==
    /\ pc = "fatal"
    /\ exitcode' = 1
    /\ StopEffect
    /\ pc' = "exited"
    /\ UNCHANGED <<handlers, url_cache_file, current_playlist_url, procs,
                   process, body, playlisturl, exc, hstate, trace, snap, nMsgs,
                   nConnErr, nRetry, nSignals,
                   nRestarts, saved>>

\* SIGTERM / SIGINT once the handlers are registered: worker.stop runs between
\* two steps of the main thread
Signal ==
    /\ handlers
    /\ pc # "exited"
    /\ nSignals < MaxSignals
    /\ nSignals' = nSignals + 1
    /\ StopEffect
    /\ UNCHANGED <<pc, exitcode, handlers, url_cache_file, current_playlist_url,
                   procs, process, body, playlisturl, exc, hstate, trace, snap,
                   nMsgs, nConnErr, nRetry,
                   nRestarts, saved>>

\* the worker process has ended (sys.exit) or was killed at any point, and
\* rpimusicd is started again: a new process with the cache file as it was
\* left; procs, from here on, are the players of the new process
Restart ==
    /\ pc # "init"
    /\ nRestarts < MaxRestarts
    /\ nRestarts' = nRestarts + 1
    /\ pc' = "init"
    /\ exit_flag' = FALSE
    /\ exitcode' = 255
    /\ amqp_channel' = "none"
    /\ handlers' = FALSE
    /\ current_playlist_url' = JNull
    /\ procs' = <<>>
    /\ process' = 0
    /\ body' = NoBody
    /\ playlisturl' = JNull
    /\ exc' = NoExc
    /\ hstate' = "none"
    /\ trace' = <<>>
    /\ snap' = NoSnap
    /\ nRetry' = 0
    /\ nSignals' = 0
    /\ UNCHANGED <<url_cache_file, nMsgs, nConnErr, saved>>

(***************************************************************************)
(* Player supervision: _start_player and _stop_player.  They run from      *)
(* worker.start() (hstate # "running") and from _handle_msg.               *)
(***************************************************************************)
\* subprocess.Popen([PLAYER, '--no-terminal', url]): a TypeError when the URL
\* is not a string, and then self._process keeps its old value
StartPlayerPopen ==
    /\ pc = "sp_popen"
    /\ \/ /\ current_playlist_url.t = "str"
          /\ procs' = Append(procs, [url |-> current_playlist_url,
                                     alive |-> TRUE, retcode |-> 0])
          /\ process' = Len(procs) + 1
          /\ trace' = IF hstate = "running" THEN Append(trace, "spawn") ELSE trace
          /\ pc' = "sp_wait"
          /\ UNCHANGED <<exc, hstate, body, playlisturl>>
       \/ /\ current_playlist_url.t # "str"
          /\ Raise(Exc("TypeError"))
          /\ UNCHANGED <<procs, process, trace>>
    /\ UNCHANGED <<exit_flag, exitcode, amqp_channel, handlers, url_cache_file,
                   current_playlist_url, snap, nMsgs, nConnErr, nRetry, nSignals,
                   nRestarts, saved>>

\* StartPlayerWait raising only for a nonzero exit code
StartPlayerWaitNonzeroOnly ==
    /\ pc = "sp_wait"
    /\ \/ /\ Return
          /\ trace' = IF hstate = "running" THEN Append(trace, "start") ELSE trace
          /\ UNCHANGED <<procs, exc>>
       \/ \E r \in RetCodes :
            /\ procs' = [procs EXCEPT ![process].alive = FALSE,
                                      ![process].retcode = r]
            /\ IF exit_flag \/ r = 0
               THEN /\ Return
                    /\ UNCHANGED <<exc, trace>>
               ELSE /\ Raise([Exc("CalledProcessError") EXCEPT !.retcode = r])
                    /\ UNCHANGED trace
    /\ UNCHANGED <<exit_flag, exitcode, amqp_channel, handlers, url_cache_file,
                   current_playlist_url, process, snap, nMsgs, nConnErr, nRetry,
                   nSignals,
                   nRestarts, saved>>

\* self._process.wait(timeout=STARTUP_TIMEOUT): TimeoutExpired is the good
\* case; a player that exits in time is an error unless exit_flag is set
StartPlayerWait ==
    /\ pc = "sp_wait"
    /\ \/ /\ Return
          /\ trace' = IF hstate = "running" THEN Append(trace, "start") ELSE trace
          /\ UNCHANGED <<procs, exc>>
       \/ \E r \in RetCodes :
            /\ procs' = [procs EXCEPT ![process].alive = FALSE,
                                      ![process].retcode = r]
            /\ IF exit_flag
               THEN /\ Return
                    /\ UNCHANGED <<exc, trace>>
               ELSE /\ Raise([Exc("CalledProcessError") EXCEPT !.retcode = r])
                    /\ UNCHANGED trace
    /\ UNCHANGED <<exit_flag, exitcode, amqp_channel, handlers, url_cache_file,
                   current_playlist_url, process, snap, nMsgs, nConnErr, nRetry,
                   nSignals,
                   nRestarts, saved>>

\* StopPlayer without communicate(): the signal is sent, the exit not awaited
StopPlayerNoWait ==
    /\ pc = "h_stop"
    /\ trace' = Append(trace, "stop")
    /\ pc' = "sp_popen"
    /\ UNCHANGED <<exit_flag, exitcode, amqp_channel, handlers, url_cache_file,
                   current_playlist_url, procs, process, body, playlisturl, exc,
                   hstate, snap, nMsgs, nConnErr, nRetry, nSignals, nRestarts,
                   saved>>

\* self._process.terminate(); self._process.communicate()
StopPlayer ==
    /\ pc = "h_stop"
    /\ procs' = [procs EXCEPT ![process].alive = FALSE,
                              ![process].retcode =
                                  IF procs[process].alive THEN -15
                                  ELSE procs[process].retcode]
    /\ trace' = Append(trace, "stop")
    /\ pc' = "sp_popen"
    /\ UNCHANGED <<exit_flag, exitcode, amqp_channel, handlers, url_cache_file,
                   current_playlist_url, process, body, playlisturl, exc, hstate,
                   snap, nMsgs, nConnErr, nRetry, nSignals,
                   nRestarts, saved>>

(***************************************************************************)
(* The consume loop: self._amqp_channel.start_consuming().                 *)
(***************************************************************************)
\* the broker delivers a message: _handle_msg is called
Deliver ==
    /\ pc = "consume"
    /\ amqp_channel = "open"
    /\ nMsgs < MaxMsgs
    /\ \E b \in Bodies : body' = b
    /\ nMsgs' = nMsgs + 1
    /\ nRetry' = 0
    /\ hstate' = "running"
    /\ trace' = <<>>
    /\ snap' = [kind |-> Kind(body'),
                prev |-> IF hstate = "returned" THEN snap.kind ELSE "none",
                cache |-> url_cache_file, url |-> current_playlist_url,
                procs |-> procs, process |-> process]
    /\ pc' = "h_parse"
    /\ UNCHANGED <<exit_flag, exitcode, amqp_channel, handlers, url_cache_file,
                   current_playlist_url, procs, process, playlisturl, exc,
                   nConnErr, nSignals,
                   nRestarts, saved>>

\* the connection drops while start_consuming blocks: ConnectionClosed
ConnectionLost ==
    /\ pc = "consume"
    /\ amqp_channel = "open"
    /\ nConnErr < MaxConnErr
    /\ nConnErr' = nConnErr + 1
    /\ nRetry' = 1
    /\ amqp_channel' = "closed"
    /\ Raise(Exc("ConnectionClosed"))
    /\ UNCHANGED <<exit_flag, exitcode, handlers, url_cache_file,
                   current_playlist_url, procs, process, trace, snap, nMsgs,
                   nSignals,
                   nRestarts, saved>>

\* the channel was closed by stop(): start_consuming returns, worker.start()
\* returns, and the loop's else clause sets exitcode = 0
ConsumeReturns ==
    /\ pc = "consume"
    /\ amqp_channel # "open"
    /\ exitcode' = 0
    /\ pc' = "loop"
    /\ UNCHANGED <<exit_flag, amqp_channel, handlers, url_cache_file,
                   current_playlist_url, procs, process, body, playlisturl, exc,
                   hstate, trace, snap, nMsgs, nConnErr, nRetry, nSignals,
                   nRestarts, saved>>

(***************************************************************************)
(* _handle_msg and _set_playlisturl.                                       *)
(***************************************************************************)
\* try: decode, json.loads, jsondata['playlisturl']
HandleParse ==
    /\ pc = "h_parse"
    /\ LET r == ParseBody(body) IN
         IF r.exc = "none"
         THEN /\ playlisturl' = r.val
              /\ pc' = "h_open"
              /\ UNCHANGED <<body, exc, hstate>>
         ELSE IF r.exc \in HandlerCaught
              THEN /\ pc' = "h_nack"
                   /\ UNCHANGED <<body, playlisturl, exc, hstate>>
              ELSE Raise(Exc(r.exc))
    /\ UNCHANGED <<exit_flag, exitcode, amqp_channel, handlers, url_cache_file,
                   current_playlist_url, procs, process, trace, snap, nMsgs,
                   nConnErr, nRetry, nSignals,
                   nRestarts, saved>>

\* a channel operation of the handler on the channel as it is now: done, or
\* ChannelClosed when stop() closed the channel, or ConnectionClosed
ChannelOp(op, next) ==
    \/ /\ amqp_channel = "open"
       /\ trace' = Append(trace, op)
       /\ IF next = "consume"
          THEN Return
          ELSE pc' = next /\ UNCHANGED <<hstate, body, playlisturl>>
       /\ UNCHANGED <<amqp_channel, exc, nConnErr, nRetry>>
    \/ /\ amqp_channel = "open"
       /\ nConnErr < MaxConnErr
       /\ nConnErr' = nConnErr + 1
       /\ nRetry' = nRetry + 1
       /\ amqp_channel' = "closed"
       /\ Raise(Exc("ConnectionClosed"))
       /\ UNCHANGED trace
    \/ /\ amqp_channel # "open"
       /\ Raise(Exc("ChannelClosed"))
       /\ UNCHANGED <<amqp_channel, trace, nConnErr, nRetry>>

NackOp(requeue) == IF requeue THEN "nack_requeue" ELSE "nack"

\* HandleNack that only logs the error and returns
HandleNackSkipped ==
    /\ pc = "h_nack"
    /\ Return
    /\ UNCHANGED <<exit_flag, exitcode, amqp_channel, handlers, url_cache_file,
                   current_playlist_url, procs, process, exc, trace, snap,
                   nMsgs, nConnErr, nRetry, nSignals,
                   nRestarts, saved>>

\* except (...): channel.basic_nack(delivery_tag, requeue=False)
HandleNack ==
    /\ pc = "h_nack"
    /\ ChannelOp(NackOp(FALSE), "consume")
    /\ UNCHANGED <<exit_flag, exitcode, handlers, url_cache_file,
                   current_playlist_url, procs, process, snap, nMsgs, nSignals,
                   nRestarts, saved>>

\* SetUrlOpen with the assignment of line 87 moved before the write
SetUrlOpenAssignFirst ==
    /\ pc = "h_open"
    /\ \/ /\ url_cache_file' = File(<<>>)
          /\ saved' = NoSave
          /\ current_playlist_url' = playlisturl
          /\ trace' = Append(trace, "open")
          /\ pc' = "h_write"
          /\ UNCHANGED <<exc, hstate, body, playlisturl>>
       \/ /\ Raise(Exc("OSError"))
          /\ UNCHANGED <<url_cache_file, current_playlist_url, trace, saved>>
    /\ UNCHANGED <<exit_flag, exitcode, amqp_channel, handlers,
                   procs, process, snap, nMsgs, nConnErr, nRetry,
                   nSignals, nRestarts>>

\* _set_playlisturl: open(self._url_cache_file, 'w') truncates the file
SetUrlOpen ==
    /\ pc = "h_open"
    /\ \/ /\ url_cache_file' = File(<<>>)
          /\ saved' = NoSave
          /\ trace' = Append(trace, "open")
          /\ pc' = "h_write"
          /\ UNCHANGED <<exc, hstate, body, playlisturl>>
       \/ /\ Raise(Exc("OSError"))
          /\ UNCHANGED <<url_cache_file, trace, saved>>
    /\ UNCHANGED <<exit_flag, exitcode, amqp_channel, handlers,
                   current_playlist_url, procs, process, snap, nMsgs, nConnErr, nRetry,
                   nSignals,
                   nRestarts>>

\* fh.write(json.dumps({"playlisturl": playlisturl})) and the close
SetUrlWrite ==
    /\ pc = "h_write"
    /\ \/ /\ url_cache_file' = File(Dumps(Record(playlisturl)))
          /\ saved' = [done |-> TRUE, url |-> playlisturl]
          /\ trace' = Append(trace, "persist")
          /\ pc' = "h_update"
          /\ UNCHANGED <<exc, hstate, body, playlisturl>>
       \/ /\ \E part \in Prefixes(Dumps(Record(playlisturl))) :
                url_cache_file' = File(part)
          /\ Raise(Exc("OSError"))
          /\ UNCHANGED <<trace, saved>>
    /\ UNCHANGED <<exit_flag, exitcode, amqp_channel, handlers,
                   current_playlist_url, procs, process, snap, nMsgs, nConnErr, nRetry,
                   nSignals,
                   nRestarts>>

\* self._current_playlist_url = playlisturl
SetUrlAssign ==
    /\ pc = "h_update"
    /\ current_playlist_url' = playlisturl
    /\ trace' = Append(trace, "update")
    /\ pc' = "h_ack"
    /\ UNCHANGED <<exit_flag, exitcode, amqp_channel, handlers, url_cache_file,
                   procs, process, body, playlisturl, exc, hstate, snap, nMsgs,
                   nConnErr, nRetry, nSignals,
                   nRestarts, saved>>

\* channel.basic_ack(delivery_tag): before the player is restarted
HandleAck ==
    /\ pc = "h_ack"
    /\ ChannelOp("ack", "h_stop")
    /\ UNCHANGED <<exit_flag, exitcode, handlers, url_cache_file,
                   current_playlist_url, procs, process, snap, nMsgs, nSignals,
                   nRestarts, saved>>

(***************************************************************************)
(* The specification.                                                      *)
(***************************************************************************)
WorkerStep ==
    \/ Construct
    \/ LoopTest
    \/ SetupAmqpConnection
    \/ RegisterSignals
    \/ SetupAmqpQueue
    \/ StartPlayerPopen
    \/ StartPlayerWait
    \/ StopPlayer
    \/ ConsumeReturns
    \/ HandleParse
    \/ HandleNack
    \/ SetUrlOpen
    \/ SetUrlWrite
    \/ SetUrlAssign
    \/ HandleAck
    \/ Backoff
    \/ Fatal

Next ==
    \/ WorkerStep
    \/ Deliver
    \/ ConnectionLost
    \/ Signal

Spec == Init /\ [][Next]_vars

\* the main thread keeps running: every step it can take is taken
FairSpec == Spec /\ WF_vars(WorkerStep)

\* runs in which the worker process is started again: the first process is
\* followed with its whole environment, a later one through its own steps
\* (it starts like the first, from the cache file the run has left)
RestartNext ==
    \/ nRestarts = 0 /\ Next
    \/ nRestarts > 0 /\ WorkerStep
    \/ Restart

RestartSpec == Init /\ [][RestartNext]_vars

(***************************************************************************)
(* The two stop methods called on a worker object from outside the run     *)
(* loop, in any order: RPiMusic.stop and RPiMusic._stop_player.  The       *)
(* object is in any state its fields can be in: no channel yet, an open or *)
(* a closed one; no self._process yet (__init__ does not assign it), a     *)
(* running player or one that has exited.  trace is the calls made, snap   *)
(* the fields before the last call, exc what the last call raised.         *)
(***************************************************************************)
Fields ==
    [flag |-> exit_flag, channel |-> amqp_channel, procs |-> procs,
     process |-> process]

StopInit ==
    /\ pc = "caller"
    /\ exit_flag = FALSE
    /\ exitcode = 3
    /\ amqp_channel \in {"none", "open", "closed"}
    /\ handlers = FALSE
    /\ url_cache_file = Missing
    /\ current_playlist_url = fallback_playlist_url
    /\ procs \in {<<>>} \cup
                 {<<[url |-> fallback_playlist_url, alive |-> a, retcode |-> 0]>> :
                    a \in BOOLEAN}
    /\ process = Len(procs)
    /\ body = NoBody
    /\ playlisturl = JNull
    /\ exc = NoExc
    /\ hstate = "none"
    /\ trace = <<>>
    /\ snap = NoSnap
    /\ nMsgs = 0
    /\ nConnErr = 0
    /\ nRetry = 0
    /\ nSignals = 0
    /\ nRestarts = 0
    /\ saved = NoSave

\* worker.stop()
CallStop ==
    /\ pc = "caller"
    /\ Len(trace) < MaxCalls
    /\ StopEffect
    /\ exc' = NoExc
    /\ trace' = Append(trace, "stop")
    /\ snap' = Fields
    /\ UNCHANGED <<pc, exitcode, handlers, url_cache_file, current_playlist_url,
                   procs, process, body, playlisturl, hstate, nMsgs, nConnErr,
                   nRetry, nSignals, nRestarts, saved>>

\* worker._stop_player(): self._process.terminate() raises AttributeError
\* when no player was ever started; terminate() and communicate() on a
\* player that has exited do nothing
CallStopPlayer ==
    /\ pc = "caller"
    /\ Len(trace) < MaxCalls
    /\ IF process = 0
       THEN /\ exc' = Exc("AttributeError")
            /\ procs' = procs
       ELSE /\ exc' = NoExc
            /\ procs' = [procs EXCEPT ![process].alive = FALSE,
                                      ![process].retcode =
                                          IF procs[process].alive THEN -15
                                          ELSE procs[process].retcode]
    /\ trace' = Append(trace, "stop_player")
    /\ snap' = Fields
    /\ UNCHANGED <<pc, exit_flag, exitcode, amqp_channel, handlers,
                   url_cache_file, current_playlist_url, process, body,
                   playlisturl, hstate, nMsgs, nConnErr, nRetry, nSignals,
                   nRestarts, saved>>

StopNext ==
    \/ CallStop
    \/ CallStopPlayer

StopSpec == StopInit /\ [][StopNext]_vars

TypeOK ==
    /\ pc \in {"init", "loop", "connect", "signal", "setup_queue", "sp_popen",
               "sp_wait", "consume", "h_parse", "h_nack", "h_open", "h_write",
               "h_update", "h_ack", "h_stop", "sleep", "fatal", "exited",
               "caller"}
    /\ exit_flag \in BOOLEAN
    /\ exitcode \in {0, 1, 3, 255}
    /\ amqp_channel \in {"none", "open", "closed"}
    /\ process \in 0..Len(procs)
    /\ hstate \in {"none", "running", "returned", "raised"}

(***************************************************************************)
(* Vocabulary of the properties.                                           *)
(***************************************************************************)
Count(op) == Cardinality({i \in 1..Len(trace) : trace[i] = op})
Acks == Count("ack")
Nacks == Count("nack") + Count("nack_requeue")
Did(op) == Count(op) > 0
TransitionSteps == {"persist", "update", "stop", "start", "ack"}
IsTransitionStep(op) == op \in TransitionSteps
Untouched ==
    /\ url_cache_file = snap.cache
    /\ current_playlist_url = snap.url
    /\ procs = snap.procs
    /\ process = snap.process

(***************************************************************************)
(* C1: for a valid message the handler performs persist, update, stop of   *)
(* the player, start of the player, acknowledge, each once and in that     *)
(* order; the acknowledgment is never issued before the new player has     *)
(* been started.                                                           *)
(***************************************************************************)
C1_AckAfterPlayerStart ==
    snap.kind = "valid" =>
        /\ Did("ack") => Did("start")
        /\ hstate = "returned" /\ ~exit_flag =>
               SelectSeq(trace, IsTransitionStep)
                   = <<"persist", "update", "stop", "start", "ack">>

(***************************************************************************)
(* C2: outside the handling of a message (its stop-to-start hand-off), at  *)
(* most one player process spawned by the worker is alive, also after      *)
(* connection losses and reconnects.                                       *)
(***************************************************************************)
C2_AtMostOnePlayerAlive == hstate # "running" => Cardinality(Alive) <= 1

(***************************************************************************)
(* C3: when the worker has terminated because of a fatal error, the broker *)
(* channel is closed and no player process it spawned is still running.    *)
(***************************************************************************)
C3_FatalTeardown ==
    (pc = "exited" /\ exitcode = 1) => (amqp_channel # "open" /\ Alive = {})

(***************************************************************************)
(* C4: a stop request handled by worker.stop leads to the worker leaving   *)
(* the run loop and terminating, in whatever state it arrives.             *)
(***************************************************************************)
C4_StopLeadsToExit == (nSignals > 0) ~> (pc = "exited")

C6_ExactlyOneAckOrNack ==
    hstate \in {"returned", "raised"} => Acks + Nacks = 1

(***************************************************************************)
(* C6 amended: a delivery is acknowledged or rejected at most once, never  *)
(* both; exactly once when the handler returns or fails after the          *)
(* acknowledgment (in the player start); not at all only when the error    *)
(* was raised by the cache write or by the ack / nack call itself.         *)
(***************************************************************************)
C6_AtMostOneAckOrNack ==
    /\ Acks + Nacks <= 1
    /\ hstate = "returned" => Acks + Nacks = 1
    /\ (hstate = "raised" /\ exc.type # "none") =>
          /\ exc.at \in {"h_open", "h_write", "h_ack", "h_nack"} => Acks + Nacks = 0
          /\ exc.at \in {"sp_popen", "sp_wait"} => Acks = 1 /\ Nacks = 0
          /\ exc.at \in {"h_open", "h_write", "h_ack", "h_nack", "sp_popen", "sp_wait"}

\* the handler ended by a cache write failure: nothing was issued
C6_Witness ==
    /\ hstate = "raised"
    /\ exc.type = "OSError"
    /\ Acks + Nacks = 0

(***************************************************************************)
(* C7: a message that is not UTF-8, not JSON, not a JSON object or an      *)
(* object without playlisturl is rejected with requeue disabled; cache     *)
(* file, current URL and players stay as they were; the handler returns    *)
(* and the worker is consuming again.  The nack itself fails only when the *)
(* channel or the connection was closed under the handler.                 *)
(***************************************************************************)
C7_MalformedRejected ==
    (snap.kind = "malformed" /\ hstate # "none") =>
        /\ Untouched
        /\ \A i \in 1..Len(trace) : trace[i] = "nack"
        /\ hstate = "returned" =>
              /\ trace = <<"nack">>
              /\ pc \in {"consume", "sleep", "loop"}
              /\ amqp_channel = "open" => pc = "consume"
        /\ (hstate = "raised" /\ exc.type # "none") =>
              /\ exc.at = "h_nack"
              /\ exc.type \in {"ChannelClosed", "ConnectionClosed"}

\* the next message is being handled after a malformed one was rejected
C7_Witness ==
    /\ snap.prev = "malformed"
    /\ hstate = "running"
    /\ nSignals = 0
    /\ nConnErr = 0

(***************************************************************************)
(* C8: a message whose playlisturl is not a string is rejected, and no     *)
(* cache write and no player stop or start occurs.                         *)
(***************************************************************************)
C8_WrongTypeRejected ==
    (snap.kind = "wrongtyped" /\ hstate # "none") =>
        /\ Untouched
        /\ ~Did("ack")
        /\ hstate = "returned" => trace = <<"nack">>

(***************************************************************************)
(* C9: a player that exits within the startup timeout while no stop is     *)
(* requested makes _start_player raise CalledProcessError with the exit    *)
(* code, whatever the code; the error is fatal, and from then on no player *)
(* is spawned and no reconnect is attempted.                               *)
(***************************************************************************)
C9_StartupFailureIsFatal ==
    [][ /\ (/\ pc = "sp_wait"
            /\ ~exit_flag
            /\ procs[process].alive
            /\ ~procs'[process].alive)
           => /\ exc' = [type |-> "CalledProcessError",
                         retcode |-> procs'[process].retcode,
                         at |-> "sp_wait"]
              /\ pc' = "fatal"
        /\ exc.type = "CalledProcessError"
           => /\ exc' = exc
              /\ procs' = procs
              /\ pc' \in {"fatal", "exited"}
              /\ pc' = "exited" => exitcode' = 1
      ]_vars

\* the worker has ended after the player started for a message exited with
\* code 0 inside the startup window
C9_Witness ==
    /\ pc = "exited"
    /\ exc.type = "CalledProcessError"
    /\ exc.retcode = 0
    /\ hstate = "raised"
    /\ Len(procs) = 2

(***************************************************************************)
(* C10: whatever the cache file holds at startup (missing, empty, not      *)
(* JSON, not an object, no playlisturl), construction completes and the    *)
(* current URL is the fallback URL.                                        *)
(***************************************************************************)
C10_ConstructionFallsBack ==
    (pc # "init" /\ nMsgs = 0 /\ LoadUrl(url_cache_file).exc # "none") =>
        /\ exitcode # 255
        /\ current_playlist_url = fallback_playlist_url

(***************************************************************************)
(* C11: when the write of the cache file fails while a message that passed *)
(* the parse is handled, the error is fatal (the worker ends with exit     *)
(* code 1) and the transition is not applied: the current URL keeps the    *)
(* value it had at delivery, the message is not acknowledged, and no       *)
(* player is stopped or spawned.                                           *)
(***************************************************************************)
C11_CacheWriteFailureIsFatal ==
    (hstate = "raised" /\ exc.type = "OSError") =>
        /\ exc.at \in {"h_open", "h_write"}
        /\ pc \in {"fatal", "exited"}
        /\ pc = "exited" => exitcode = 1
        /\ current_playlist_url = snap.url
        /\ procs = snap.procs
        /\ process = snap.process
        /\ Acks = 0
        /\ ~Did("update")
        /\ ~Did("stop")
        /\ ~Did("spawn")

\* the worker has ended after fh.write failed for a valid message, the
\* cache file already truncated
C11_Witness ==
    /\ pc = "exited"
    /\ hstate = "raised"
    /\ exc.type = "OSError"
    /\ exc.at = "h_write"
    /\ snap.kind = "valid"
    /\ Did("open")
    /\ url_cache_file # snap.cache

(***************************************************************************)
(* C12: no command is lost by a crash.  Every state is a point at which    *)
(* the worker process may die, and a worker started then reads the cache   *)
(* file as that state has it.  Once a valid message is acknowledged the    *)
(* cache file holds its URL completely, and from then on a worker started  *)
(* afterwards gets that URL or the URL of a later message.                 *)
(***************************************************************************)
MessageUrls == {JStr(u) : u \in Urls}

C12_AckedCommandSurvivesCrash ==
    /\ (hstate = "running" /\ snap.kind = "valid" /\ Did("ack")) =>
           LoadUrl(url_cache_file) = [exc |-> "none", val |-> playlisturl]
    /\ (snap.prev = "valid" \/ (snap.kind = "valid" /\ Did("ack"))) =>
           /\ LoadUrl(url_cache_file).exc = "none"
           /\ LoadUrl(url_cache_file).val \in MessageUrls

(***************************************************************************)
(* C13: in a URL switch made by the handler, the player owned at delivery  *)
(* has been terminated and its exit awaited before the new player is       *)
(* spawned: the stop precedes the spawn and the old player is dead from    *)
(* the spawn on.                                                           *)
(***************************************************************************)
C13_StopCompletesBeforeSpawn ==
    (hstate = "running" /\ Did("spawn")) =>
        /\ \E i, j \in 1..Len(trace) :
              i < j /\ trace[i] = "stop" /\ trace[j] = "spawn"
        /\ snap.process \in 1..Len(procs)
        /\ ~procs[snap.process].alive
        /\ process # snap.process
        /\ Alive \cap (snap.process..Len(procs)) \subseteq {process}

\* the handler has stopped the player of the first URL (terminated by the
\* signal) and spawned the player of another URL
C13_Witness ==
    /\ hstate = "running"
    /\ Did("spawn")
    /\ pc = "sp_wait"
    /\ snap.process = 1
    /\ process = 2
    /\ procs[1].retcode = -15
    /\ procs[2].alive
    /\ procs[2].url # procs[1].url

(***************************************************************************)
(* C14: the stop of the worker and the stop of the player are idempotent:  *)
(* no call of either raises an error, whether or not a channel was opened  *)
(* or a player is owned, and a call that repeats the call before it        *)
(* changes nothing.                                                        *)
(***************************************************************************)
C14_StopIsIdempotent ==
    pc = "caller" =>
        /\ exc.type = "none"
        /\ (Len(trace) >= 2 /\ trace[Len(trace)] = trace[Len(trace) - 1]) =>
               Fields = snap

(***************************************************************************)
(* C15: save and load round-trip across a restart: when the last save of   *)
(* the cache file completed, with URL u, a worker process started          *)
(* afterwards is constructed with current URL u, the URL of the last       *)
(* accepted message, and not with the fallback URL.                        *)
(***************************************************************************)
C15_SaveLoadRoundTrip ==
    (nRestarts > 0 /\ pc # "init" /\ saved.done) =>
        /\ exitcode # 255
        /\ current_playlist_url = saved.url

\* a worker started again has been constructed with the URL u2, which only
\* a message handled by an earlier worker process can have saved
C15_Witness ==
    /\ nRestarts > 0
    /\ pc = "loop"
    /\ saved = [done |-> TRUE, url |-> JStr("u2")]
    /\ current_playlist_url = JStr("u2")
    /\ current_playlist_url # fallback_playlist_url

(***************************************************************************)
(* C16: the save is atomic for a later process start: at every point of    *)
(* the handling of a valid message that replaces a saved URL, the save     *)
(* begun or not, a worker started at that point reads from the cache file  *)
(* the URL saved before or the URL of the message.                         *)
(***************************************************************************)
C16_SaveIsAtomic ==
    (hstate = "running" /\ snap.kind = "valid"
       /\ LoadUrl(snap.cache).exc = "none") =>
        /\ LoadUrl(url_cache_file).exc = "none"
        /\ LoadUrl(url_cache_file).val \in
               {LoadUrl(snap.cache).val, playlisturl}

(***************************************************************************)
(* C17: the cache holds the last command applied with success: whenever    *)
(* the worker waits for messages or has ended, a URL it has saved is one   *)
(* with which a player was started and survived the startup window (it is  *)
(* still running, or it ran until it was terminated); the URL of a player  *)
(* that failed at startup is not left in the cache.  Stated for the runs    *)
(* without stop request and without connection error, where nothing but    *)
(* the handler's own steps decides.                                        *)
(***************************************************************************)
SurvivedStartup(i) == procs[i].alive \/ procs[i].retcode = -15

C17_CacheHoldsAppliedUrl ==
    (pc \in {"consume", "exited"} /\ hstate # "running"
       /\ nSignals = 0 /\ nConnErr = 0
       /\ saved.done /\ saved.url \in MessageUrls) =>
        \E i \in 1..Len(procs) :
            procs[i].url = saved.url /\ SurvivedStartup(i)

(***************************************************************************)
(* C18: exit codes under every interleaving of the stop signal with the    *)
(* main loop: a run that ends after a stop request and without a fatal     *)
(* error ends with exit code 0; exit code 1 is produced only after a fatal *)
(* error; exit code 3 only when the failure came before a connection was   *)
(* established.  At the exit exc holds the fatal error, if there was one.  *)
(***************************************************************************)
C18_ExitCodes ==
    pc = "exited" =>
        /\ (nSignals > 0 /\ exc.type = "none") => exitcode = 0
        /\ exitcode = 1 => exc.type \notin {"none", "ConnectionClosed"}
        /\ exitcode = 3 => amqp_channel = "none"

(***************************************************************************)
(* C19: whenever the worker waits in the consume loop with no handler in   *)
(* progress, the player it owns was started with the current URL, and the  *)
(* cache file, if the worker has written it, holds the current URL; the    *)
(* current URL changes only at construction and while a valid message (a   *)
(* record whose playlisturl is a string) is handled.                       *)
(***************************************************************************)
ConsumeInv ==
    (pc = "consume" /\ hstate # "running") =>
        /\ process \in 1..Len(procs)
        /\ procs[process].url = current_playlist_url
        /\ saved.done =>
               /\ saved.url = current_playlist_url
               /\ LoadUrl(url_cache_file) =
                      [exc |-> "none", val |-> current_playlist_url]

C19_PlayerFollowsCurrentUrl ==
    [][ /\ ConsumeInv'
        /\ current_playlist_url' # current_playlist_url =>
               \/ pc = "init"
               \/ hstate = "running" /\ snap.kind = "valid"
      ]_vars
=============================================================================
